---- MODULE Spec2Model ----
(***************************************************************************)
(* Model of the chat bridge of keuerle/boris.                              *)
(*                                                                         *)
(* Spec      : src/app/api/chat/route.ts, POST: the backend fetch, the     *)
(*             ReadableStream whose start() reads the newline-delimited    *)
(*             JSON stream of the backend and enqueues UI protocol events. *)
(*                                                                         *)
(* The upstream text is a sequence of lexical tokens.  The code looks at   *)
(* characters only through split('\n'), trim() and JSON.parse, so a token  *)
(* stands for a run of characters that none of the three cuts.             *)
(***************************************************************************)
EXTENDS Integers, Sequences, FiniteSets, TLC

\* ------------------------------------------------------------------ bounds
\* number of pieces (Frags) of an upstream text
MaxFrags == 3

\* ------------------------------------------------------------------ tokens
NL == "\\n"
SP == " "
LB == "{"
RB == "}"
NUM == "42"
NULL == "null"

\* "key":value members of a record of the backend; the separating comma is
\* part of the token.
ContentTokens == {"cA", "cB", "c0"}
DoneTokens == {"dT", "dF"}
ErrorTokens == {"eX", "eY", "e0"}
FieldTokens == ContentTokens \cup DoneTokens \cup ErrorTokens

\* the value a member token carries
FieldValue(t) ==
  CASE t = "cA" -> "a"
    [] t = "cB" -> "b"
    [] t = "c0" -> ""
    [] t = "dT" -> "true"
    [] t = "dF" -> "false"
    [] t = "eX" -> "X"
    [] t = "eY" -> "Y"
    [] t = "e0" -> ""

\* JavaScript truthiness of the values a member can have
Truthy(v) == v \notin {"undefined", "", "false"}

\* ------------------------------------------------------- sequence helpers
Last(s) == s[Len(s)]
Front(s) == SubSeq(s, 1, Len(s) - 1)

IsPrefix(s, t) == Len(s) <= Len(t) /\ SubSeq(t, 1, Len(s)) = s

\* String.prototype.trim: whitespace removed at both ends
RECURSIVE TrimLeft(_)
TrimLeft(s) ==
  IF s # <<>> /\ Head(s) \in {SP, NL} THEN TrimLeft(Tail(s)) ELSE s

RECURSIVE TrimRight(_)
TrimRight(s) ==
  IF s # <<>> /\ Last(s) \in {SP, NL} THEN TrimRight(Front(s)) ELSE s

trim(s) == TrimRight(TrimLeft(s))

\* String.prototype.split('\n'): the pieces between the newlines, one more
\* than there are newlines
RECURSIVE SplitFrom(_, _)
SplitFrom(s, cur) ==
  IF s = <<>> THEN <<cur>>
  ELSE IF Head(s) = NL THEN <<cur>> \o SplitFrom(Tail(s), <<>>)
  ELSE SplitFrom(Tail(s), Append(cur, Head(s)))

split(s) == SplitFrom(s, <<>>)

\* ------------------------------------------------------------- JSON.parse
Undefined == "undefined"

\* the members of an object literal, a later member replacing an earlier one
\* of the same key
RECURSIVE Members(_, _)
Members(ts, obj) ==
  IF ts = <<>> THEN obj
  ELSE LET t == Head(ts)
           o == IF t \in ContentTokens THEN [obj EXCEPT !.content = FieldValue(t)]
                ELSE IF t \in DoneTokens THEN [obj EXCEPT !.done = FieldValue(t)]
                ELSE [obj EXCEPT !.error = FieldValue(t)]
       IN Members(Tail(ts), o)

NoMembers ==
  [kind |-> "object", content |-> Undefined, done |-> Undefined, error |-> Undefined]

NotAnObject(k) ==
  [kind |-> k, content |-> Undefined, done |-> Undefined, error |-> Undefined]

\* JSON.parse(line): whitespace between tokens is skipped; kind is "throws"
\* for a SyntaxError
JSONparse(line) ==
  LET ts == SelectSeq(line, LAMBDA t : t \notin {SP, NL})
  IN IF ts = <<NUM>> THEN NotAnObject("number")
     ELSE IF ts = <<NULL>> THEN NotAnObject("null")
     ELSE IF /\ Len(ts) >= 2
             /\ Head(ts) = LB
             /\ Last(ts) = RB
             /\ \A i \in 2..(Len(ts) - 1) : ts[i] \in FieldTokens
          THEN Members(SubSeq(ts, 2, Len(ts) - 1), NoMembers)
     ELSE NotAnObject("throws")

\* ------------------------------------------------------------- the events
NoId == 0
Event(type, id, data) == [type |-> type, id |-> id, data |-> data]

\* processLine ending the stream at a line JSON.parse rejects
processLine_parseFailureEnds(line, textId) ==
  LET parsed == JSONparse(line)
  IN IF parsed.kind = "throws" THEN [emit |-> <<>>, ret |-> TRUE]
     ELSE IF parsed.kind # "object" THEN [emit |-> <<>>, ret |-> FALSE]
     ELSE IF Truthy(parsed.error)
          THEN [emit |-> <<Event("error", NoId, parsed.error)>>, ret |-> TRUE]
     ELSE [emit |-> IF Truthy(parsed.content)
                    THEN <<Event("text-delta", textId, parsed.content)>>
                    ELSE <<>>,
           ret |-> Truthy(parsed.done)]

\* processLine with the error branch falling through to the next line
processLine_errorContinues(line, textId) ==
  LET parsed == JSONparse(line)
  IN IF parsed.kind = "throws" THEN [emit |-> <<>>, ret |-> FALSE]
     ELSE IF parsed.kind # "object" THEN [emit |-> <<>>, ret |-> FALSE]
     ELSE IF Truthy(parsed.error)
          THEN [emit |-> <<Event("error", NoId, parsed.error)>>, ret |-> FALSE]
     ELSE [emit |-> IF Truthy(parsed.content)
                    THEN <<Event("text-delta", textId, parsed.content)>>
                    ELSE <<>>,
           ret |-> Truthy(parsed.done)]

\* processLine with the content of a record reported before its error
processLine_deltaBeforeError(line, textId) ==
  LET parsed == JSONparse(line)
      delta == IF Truthy(parsed.content)
               THEN <<Event("text-delta", textId, parsed.content)>>
               ELSE <<>>
  IN IF parsed.kind = "throws" THEN [emit |-> <<>>, ret |-> FALSE]
     ELSE IF parsed.kind # "object" THEN [emit |-> <<>>, ret |-> FALSE]
     ELSE IF Truthy(parsed.error)
          THEN [emit |-> delta \o <<Event("error", NoId, parsed.error)>>,
                ret |-> TRUE]
     ELSE [emit |-> delta, ret |-> Truthy(parsed.done)]

\* processLine returning at done: true before the content is looked at
processLine_doneDropsContent(line, textId) ==
  LET parsed == JSONparse(line)
  IN IF parsed.kind = "throws" THEN [emit |-> <<>>, ret |-> FALSE]
     ELSE IF parsed.kind # "object" THEN [emit |-> <<>>, ret |-> FALSE]
     ELSE IF Truthy(parsed.error)
          THEN [emit |-> <<Event("error", NoId, parsed.error)>>, ret |-> TRUE]
     ELSE IF Truthy(parsed.done) THEN [emit |-> <<>>, ret |-> TRUE]
     ELSE [emit |-> IF Truthy(parsed.content)
                    THEN <<Event("text-delta", textId, parsed.content)>>
                    ELSE <<>>,
           ret |-> FALSE]

\* processLine of start(): the events it enqueues and the value it returns
processLine(line, textId) ==
  LET parsed == JSONparse(line)
  IN IF parsed.kind = "throws" THEN [emit |-> <<>>, ret |-> FALSE]
     ELSE IF parsed.kind # "object" THEN [emit |-> <<>>, ret |-> FALSE]
     ELSE IF Truthy(parsed.error)
          THEN [emit |-> <<Event("error", NoId, parsed.error)>>, ret |-> TRUE]
     ELSE [emit |-> IF Truthy(parsed.content)
                    THEN <<Event("text-delta", textId, parsed.content)>>
                    ELSE <<>>,
           ret |-> Truthy(parsed.done)]

\* the for loop without its break: the lines after a terminating record are
\* processed too
RECURSIVE forLines_noBreak(_, _)
forLines_noBreak(lines, textId) ==
  IF lines = <<>> THEN [emit |-> <<>>, isDone |-> FALSE, calls |-> <<>>]
  ELSE LET trimmed == trim(Head(lines))
           rest == forLines_noBreak(Tail(lines), textId)
       IN IF trimmed = <<>> THEN rest
          ELSE LET r == processLine(trimmed, textId)
               IN [emit |-> r.emit \o rest.emit,
                   isDone |-> r.ret \/ rest.isDone,
                   calls |-> <<trimmed>> \o rest.calls]

\* the for loop over the complete lines of one read: blank lines skipped,
\* stops at the first line processLine returns true for
RECURSIVE forLines(_, _)
forLines(lines, textId) ==
  IF lines = <<>> THEN [emit |-> <<>>, isDone |-> FALSE, calls |-> <<>>]
  ELSE LET trimmed == trim(Head(lines))
       IN IF trimmed = <<>> THEN forLines(Tail(lines), textId)
          ELSE LET r == processLine(trimmed, textId)
               IN IF r.ret
                  THEN [emit |-> r.emit, isDone |-> TRUE, calls |-> <<trimmed>>]
                  ELSE LET rest == forLines(Tail(lines), textId)
                       IN [emit |-> r.emit \o rest.emit,
                           isDone |-> rest.isDone,
                           calls |-> <<trimmed>> \o rest.calls]

\* the statements after the while loop without the test of isDone
afterLoop_ignoresDone(buf, done, textId) ==
  LET remaining == trim(buf)
  IN IF remaining # <<>>
     THEN LET r == processLine(remaining, textId)
          IN [emit |-> r.emit, isDone |-> done \/ r.ret, calls |-> <<remaining>>]
     ELSE [emit |-> <<>>, isDone |-> done, calls |-> <<>>]

\* the statements after the while loop: the carry-over buffer is processed
\* when no terminating record was seen
afterLoop(buf, done, textId) ==
  LET remaining == trim(buf)
  IN IF ~done /\ remaining # <<>>
     THEN LET r == processLine(remaining, textId)
          IN [emit |-> r.emit, isDone |-> r.ret, calls |-> <<remaining>>]
     ELSE [emit |-> <<>>, isDone |-> done, calls |-> <<>>]

\* the finally block with finish enqueued before text-end
finallyEvents_finishFirst(textId) ==
  <<Event("finish", NoId, ""), Event("text-end", textId, "")>>

\* the finally block's enqueues
finallyEvents(textId) ==
  <<Event("text-end", textId, ""), Event("finish", NoId, "")>>

\* ------------------------------------------------------ upstream contents
\* the pieces a backend response body is made of: one line each, or a blank
\* or null line with the line after it
FragA == <<LB, "cA", "dF", RB>>
FragB == <<LB, "cB", RB>>
FragDone == <<LB, "dT", RB>>
FragADone == <<LB, "cA", "dT", RB>>
FragErrX == <<LB, "eX", RB>>
FragErrYBDone == <<LB, "eY", "cB", "dT", RB>>
FragBad == <<LB, "cA">>
FragNullNum == <<NULL, NL, NUM>>
FragBlankEmpty == <<SP, NL, SP, LB, "e0", "c0", RB>>

Frags ==
  {FragA, FragB, FragDone, FragADone, FragErrX, FragErrYBDone, FragBad,
   FragNullNum, FragBlankEmpty}

RECURSIVE FragSeqs(_)
FragSeqs(n) ==
  IF n = 0 THEN {<<>>}
  ELSE LET shorter == FragSeqs(n - 1)
       IN shorter \cup {Append(fs, f) : fs \in {x \in shorter : Len(x) = n - 1},
                                         f \in Frags}

\* pieces joined by newlines; the last line may lack its newline
RECURSIVE Join(_, _)
Join(fs, lastNL) ==
  IF fs = <<>> THEN <<>>
  ELSE IF Len(fs) = 1 THEN Head(fs) \o (IF lastNL THEN <<NL>> ELSE <<>>)
  ELSE Head(fs) \o <<NL>> \o Join(Tail(fs), lastNL)

Texts == {Join(fs, b) : fs \in FragSeqs(MaxFrags), b \in BOOLEAN}

\* what a rejected reader.read() carries: an Error with a message, or a
\* value that is not an Error
NoFailure == [isError |-> FALSE, message |-> "none"]
ReadFailures ==
  {[isError |-> TRUE, message |-> "terminated"],
   [isError |-> FALSE, message |-> ""]}

\* ------------------------------------------------------ the POST request
\* number of messages of a POST body
MaxMessages == 3

DEFAULT_MODEL == "llama3.2:latest"
SYSTEM_PROMPT == <<"You are a helpful assistant and friend named Boris.">>

\* the messages convertToCoreMessages yields: a role and content parts, of
\* which the text parts carry text
TextPart(t) == [type |-> "text", text |-> t]
OtherPart(type) == [type |-> type, text |-> <<>>]
Message(role, content) == [role |-> role, content |-> content]

MsgPlain == Message("user", <<TextPart(<<"h">>)>>)
MsgTwoParts ==
  Message("user", <<TextPart(<<"h", SP>>), OtherPart("file"), TextPart(<<"i">>)>>)
MsgBlank == Message("user", <<TextPart(<<SP>>), TextPart(<<NL>>)>>)
MsgNoText == Message("assistant", <<OtherPart("tool-call")>>)
MsgPadded == Message("assistant", <<TextPart(<<SP, "i", NL>>)>>)
MsgToolResult == Message("tool", <<OtherPart("tool-result")>>)

MessageKinds ==
  {MsgPlain, MsgTwoParts, MsgBlank, MsgNoText, MsgPadded, MsgToolResult}

RECURSIVE MessageSeqs(_)
MessageSeqs(n) ==
  IF n = 0 THEN {<<>>}
  ELSE LET shorter == MessageSeqs(n - 1)
       IN shorter \cup {Append(ms, k) : ms \in {x \in shorter : Len(x) = n - 1},
                                         k \in MessageKinds}

\* the JSON body of the request to POST: keys holds the members present
Body(keys, messages, model, think) ==
  [keys |-> keys, messages |-> messages, model |-> model, think |-> think]

\* the body the chat page sends for a first message
PlainBody == Body({"messages", "model", "think"}, <<MsgPlain>>, "qwen3:8b", FALSE)

\* a body without messages
NoMessagesBody == Body({"model", "think"}, <<>>, "qwen3:8b", FALSE)

\* think of a body: absent, true, false
ThinkMembers ==
  {[keys |-> {}, think |-> FALSE],
   [keys |-> {"think"}, think |-> TRUE],
   [keys |-> {"think"}, think |-> FALSE]}

Bodies ==
  {Body({"messages"} \cup mk \cup tm.keys, ms, "qwen3:8b", tm.think) :
     ms \in MessageSeqs(MaxMessages),
     mk \in {{}, {"model"}},
     tm \in ThinkMembers}
  \cup {NoMessagesBody}

\* the backend's response: status, whether it has a body, the text
\* response.text() gives, and the decoded text of a streamed body
Response(status, hasBody, errorText, text) ==
  [status |-> status, hasBody |-> hasBody, errorText |-> errorText, text |-> text]

BodilessResponses ==
  {Response(200, FALSE, <<>>, <<>>), Response(500, FALSE, <<>>, <<>>)}

\* messages ?? []
orEmpty(body) == IF "messages" \in body.keys THEN body.messages ELSE <<>>

\* model = DEFAULT_MODEL
modelOf(body) == IF "model" \in body.keys THEN body.model ELSE DEFAULT_MODEL

\* content.filter(type === 'text').map(text).join('')
RECURSIVE joinText(_)
joinText(content) ==
  IF content = <<>> THEN <<>>
  ELSE (IF Head(content).type = "text" THEN Head(content).text ELSE <<>>)
         \o joinText(Tail(content))

\* buildMessages without the trim of the joined text
RECURSIVE buildMessages_untrimmed(_)
buildMessages_untrimmed(messages) ==
  IF messages = <<>> THEN <<>>
  ELSE LET t == joinText(Head(messages).content)
       IN (IF t = <<>> THEN <<>>
           ELSE <<[role |-> Head(messages).role, content |-> t]>>)
            \o buildMessages_untrimmed(Tail(messages))

\* buildMessages keeping the messages without text
RECURSIVE buildMessages_keepsEmpty(_)
buildMessages_keepsEmpty(messages) ==
  IF messages = <<>> THEN <<>>
  ELSE <<[role |-> Head(messages).role,
          content |-> trim(joinText(Head(messages).content))]>>
         \o buildMessages_keepsEmpty(Tail(messages))

\* buildMessages: role and trimmed joined text of every message that has text
RECURSIVE buildMessages(_)
buildMessages(messages) ==
  IF messages = <<>> THEN <<>>
  ELSE LET t == trim(joinText(Head(messages).content))
       IN (IF t = <<>> THEN <<>>
           ELSE <<[role |-> Head(messages).role, content |-> t]>>)
            \o buildMessages(Tail(messages))

\* the request POST sends to the backend
fetchRequest(body) ==
  [body |-> [model |-> modelOf(body),
             messages |-> <<[role |-> "system", content |-> SYSTEM_PROMPT]>>
                            \o buildMessages(orEmpty(body)),
             stream |-> TRUE],
   signal |-> "request.signal"]

\* the message of the error without the use of the response text
failureMessage_statusOnly(errorTxt, st) ==
  <<"Request to Ollama failed with status", st>>

\* errorText || `Request to Ollama failed with status ${response.status}`
failureMessage(errorTxt, st) ==
  IF errorTxt # <<>> THEN errorTxt
  ELSE <<"Request to Ollama failed with status", st>>

\* ------------------------------------------------------------------ state
VARIABLES
  body,        \* the JSON body of the request to POST
  status,      \* response.status of the backend response
  errorText,   \* what response.text() gives of a failed response
  sent,        \* the requests sent to the backend
  thrownMessage, \* the message of the error POST threw
  cancelled,   \* the consumer cancelled the output stream, and out and pos then
  readerCancelled, \* reader.cancel() was called
  respOk,      \* response.ok of the backend response
  hasBody,     \* response.body is not null
  text,        \* the decoded text the backend response body carries
  pc,          \* "init", "fetching", "thrown", "reading", "done"
  thrown,      \* TRUE when POST threw
  nextId,      \* createId: the ids handed out so far
  messageId,
  textId,
  out,         \* the events enqueued on the controller
  closed,      \* controller.close() was called
  locked,      \* the reader holds the lock of the body
  pos,         \* tokens of text the reader has delivered
  buffer,
  isDone,
  readPending, \* a reader.read() is awaited
  calls,       \* the arguments of the calls of processLine
  how,         \* how the read loop ended: "record", "eof", "fail", "cancel"
  failure,     \* what the rejected reader.read() carried
  \* the tool-enabled route
  tPhase,      \* "idle", "model", "tools", "finished", "failed"
  tSteps,      \* the steps finished (steps.length of the stop condition)
  tDispatched, \* the generation steps started
  tCalls,      \* the tool calls of the step under way, in call order
  tOut,        \* the events of the UI message stream
  \* a call of the weather tool
  wOutcomes,   \* how the search of each unique strategy ends
  wForecast,   \* how the forecast request ends
  wPhase,      \* "idle", "returned"
  wSearched,   \* the strategies searched, in order
  wResult,     \* what execute gave
  \* the chat page
  input,       \* the text of the prompt textarea
  thinkMode,
  chatStatus,  \* status of useChat: "ready", "submitted", "streaming", "error"
  sends,       \* the calls of sendMessage
  parts,       \* message.parts of the assistant message under way
  finished,    \* the stream of the message has finished
  rendered,    \* the rendering of the parts, in order
  conversation, \* messages of useChat: role and parts of every message
  shown        \* the Retry and Copy actions of the last rendering

inputVars == <<body, status, errorText, respOk, hasBody, text>>

routeVars ==
  <<inputVars, sent, thrownMessage, cancelled, readerCancelled, pc, thrown,
    nextId, messageId, textId, out, closed, locked, pos, buffer, isDone,
    readPending, calls, how, failure>>

weatherVars == <<wOutcomes, wForecast, wPhase, wSearched, wResult>>

toolVars == <<tPhase, tSteps, tDispatched, tCalls, tOut, weatherVars>>

convVars == <<conversation, shown>>

pageVars ==
  <<input, thinkMode, chatStatus, sends, parts, finished, rendered, convVars>>

vars == <<routeVars, toolVars, pageVars>>

\* the chat page when it is opened
PageIdle ==
  /\ input = <<>>
  /\ thinkMode = FALSE
  /\ chatStatus = "ready"
  /\ sends = <<>>
  /\ parts = <<>>
  /\ finished = FALSE
  /\ rendered = <<>>
  /\ conversation = <<>>
  /\ shown = [count |-> 0, actions |-> {}]

\* streamText before a request
StreamTextIdle ==
  /\ tPhase = "idle"
  /\ tSteps = 0
  /\ tDispatched = 0
  /\ tCalls = <<>>
  /\ tOut = <<>>

\* the weather tool before a call
WeatherIdle ==
  /\ wPhase = "idle"
  /\ wSearched = <<>>
  /\ wResult = [raised |-> FALSE, error |-> FALSE, message |-> ""]

\* the tool-enabled route before a request
ToolIdle ==
  /\ StreamTextIdle
  /\ WeatherIdle
  /\ wOutcomes = <<"results">>
  /\ wForecast = "ok"

\* the consumer has not cancelled
NotCancelled == [is |-> FALSE, out |-> <<>>, pos |-> 0]

\* POST before its first statement
RouteStart ==
  /\ pc = "init"
  /\ sent = <<>>
  /\ thrown = FALSE
  /\ thrownMessage = <<>>
  /\ cancelled = NotCancelled
  /\ readerCancelled = FALSE
  /\ nextId = 1
  /\ messageId = NoId
  /\ textId = NoId
  /\ out = <<>>
  /\ closed = FALSE
  /\ locked = FALSE
  /\ pos = 0
  /\ buffer = <<>>
  /\ isDone = FALSE
  /\ readPending = FALSE
  /\ calls = <<>>
  /\ how = "none"
  /\ failure = NoFailure

\* a request body and the response the backend gives
RouteInputs(bodies, responses) ==
  /\ body \in bodies
  /\ \E r \in responses :
       /\ status = r.status
       /\ respOk = (r.status \in 200..299)
       /\ hasBody = r.hasBody
       /\ errorText = r.errorText
       /\ text = r.text

\* streamed responses of every text, and failed responses
StreamResponses(texts) ==
  {Response(200, TRUE, <<>>, t) : t \in texts}
    \cup {Response(500, TRUE, <<>>, <<>>)} \cup BodilessResponses

RouteInit ==
  /\ RouteStart
  /\ \/ RouteInputs({PlainBody}, StreamResponses(Texts))
     \/ RouteInputs({NoMessagesBody}, {Response(200, TRUE, <<>>, <<>>)})

Init == RouteInit /\ ToolIdle /\ PageIdle

\* -------------------------------------------------------------- operations
\* the check of the backend response without the test of the body
responseFailed_statusOnly == ~respOk

\* the check of the backend response
responseFailed == ~respOk \/ ~hasBody

\* POST with a body that has no message with text: it throws before a
\* request is sent
POSTRejects ==
  /\ pc = "init"
  /\ buildMessages(orEmpty(body)) = <<>>
  /\ pc' = "thrown"
  /\ thrown' = TRUE
  /\ thrownMessage' = <<"No text messages available for Ollama request.">>
  /\ UNCHANGED <<inputVars, sent, cancelled, readerCancelled, nextId, messageId,
                 textId, out, closed, locked, pos, buffer, isDone, readPending,
                 calls, how, failure>>
  /\ UNCHANGED <<toolVars, pageVars>>

\* POST up to the await of fetch: the request to the backend is sent
POSTFetch ==
  /\ pc = "init"
  /\ buildMessages(orEmpty(body)) # <<>>
  /\ sent' = Append(sent, fetchRequest(body))
  /\ pc' = "fetching"
  /\ UNCHANGED <<inputVars, thrown, thrownMessage, cancelled, readerCancelled,
                 nextId, messageId, textId, out, closed, locked, pos, buffer,
                 isDone, readPending, calls, how, failure>>
  /\ UNCHANGED <<toolVars, pageVars>>

\* POST from the backend's response to the throw on a failed response
POSTThrows ==
  /\ pc = "fetching"
  /\ responseFailed
  /\ pc' = "thrown"
  /\ thrown' = TRUE
  /\ thrownMessage' = failureMessage(errorText, status)
  /\ UNCHANGED <<inputVars, sent, cancelled, readerCancelled, nextId, messageId,
                 textId, out, closed, locked, pos, buffer, isDone, readPending,
                 calls, how, failure>>
  /\ UNCHANGED <<toolVars, pageVars>>

\* the first events with the id of the message on text-start
startEvents_messageIdOnText(mId, tId) ==
  <<Event("start", mId, ""), Event("text-start", mId, "")>>

\* the events start() enqueues before its first read
startEvents(mId, tId) ==
  <<Event("start", mId, ""), Event("text-start", tId, "")>>

\* POST on a successful backend response: the reader is taken, the stream is
\* constructed and start() runs up to its first await
POSTStreams ==
  /\ pc = "fetching"
  /\ ~responseFailed
  /\ locked' = TRUE
  /\ messageId' = nextId
  /\ textId' = nextId + 1
  /\ nextId' = nextId + 2
  /\ out' = startEvents(nextId, nextId + 1)
  /\ readPending' = TRUE
  /\ pc' = "reading"
  /\ UNCHANGED <<inputVars, sent, thrown, thrownMessage, cancelled,
                 readerCancelled, closed, pos, buffer, isDone, calls, how, failure>>
  /\ UNCHANGED <<toolVars, pageVars>>

\* the carry-over taken from the read alone: what the buffer held is lost
carryOver_ofValueOnly(buf, value) == Last(split(value))

\* buffer after a read of value: the text after the last newline
carryOver(buf, value) == Last(split(buf \o value))

\* the lines of a read with the text after the last newline among them
completeLines_withPartial(buf, value) == split(buf \o value)

\* the complete lines of a read
completeLines(buf, value) == Front(split(buf \o value))

\* reader.read() resolves with the next k tokens: the complete lines are
\* processed; at a terminating record the loop is left, the statements after
\* it and the finally block run
ReadChunk(k) ==
  /\ pc = "reading"
  /\ readPending
  /\ ~cancelled.is
  /\ k \in 1..(Len(text) - pos)
  /\ LET value == SubSeq(text, pos + 1, pos + k)
         r == forLines(completeLines(buffer, value), textId)
         after == afterLoop(carryOver(buffer, value), TRUE, textId)
     IN /\ pos' = pos + k
        /\ buffer' = carryOver(buffer, value)
        /\ isDone' = r.isDone
        /\ calls' = calls \o r.calls \o (IF r.isDone THEN after.calls ELSE <<>>)
        /\ IF r.isDone
           THEN /\ out' = out \o r.emit \o after.emit \o finallyEvents(textId)
                /\ closed' = TRUE
                /\ locked' = FALSE
                /\ readPending' = FALSE
                /\ how' = "record"
                /\ pc' = "done"
           ELSE /\ out' = out \o r.emit
                /\ UNCHANGED <<closed, locked, readPending, how, pc>>
  /\ UNCHANGED <<inputVars, sent, thrown, thrownMessage, cancelled,
                 readerCancelled, nextId, messageId, textId, failure>>
  /\ UNCHANGED <<toolVars, pageVars>>

\* end-of-stream without a terminating record treated as a failure
ReadEnd_requiresDone ==
  /\ pc = "reading"
  /\ readPending
  /\ ~cancelled.is
  /\ pos = Len(text)
  /\ LET r == afterLoop(buffer, isDone, textId)
     IN /\ out' = out \o r.emit
                    \o (IF r.isDone THEN <<>>
                        ELSE <<Event("error", NoId, "Unexpected end of stream")>>)
                    \o finallyEvents(textId)
        /\ isDone' = r.isDone
        /\ calls' = calls \o r.calls
  /\ closed' = TRUE
  /\ locked' = FALSE
  /\ readPending' = FALSE
  /\ how' = "eof"
  /\ pc' = "done"
  /\ UNCHANGED <<inputVars, sent, thrown, thrownMessage, cancelled,
                 readerCancelled, nextId, messageId, textId, pos, buffer, failure>>
  /\ UNCHANGED <<toolVars, pageVars>>

\* reader.read() resolves with done: the loop is left, the carry-over buffer
\* is processed and the finally block runs
ReadEnd ==
  /\ pc = "reading"
  /\ readPending
  /\ ~cancelled.is
  /\ pos = Len(text)
  /\ LET r == afterLoop(buffer, isDone, textId)
     IN /\ out' = out \o r.emit \o finallyEvents(textId)
        /\ isDone' = r.isDone
        /\ calls' = calls \o r.calls
  /\ closed' = TRUE
  /\ locked' = FALSE
  /\ readPending' = FALSE
  /\ how' = "eof"
  /\ pc' = "done"
  /\ UNCHANGED <<inputVars, sent, thrown, thrownMessage, cancelled,
                 readerCancelled, nextId, messageId, textId, pos, buffer, failure>>
  /\ UNCHANGED <<toolVars, pageVars>>

\* the catch block's message without the use of error.message
catchMessage_alwaysUnknown(error) == "Unknown error"

\* the catch block's message
catchMessage(error) ==
  IF error.isError THEN error.message ELSE "Unknown error"

\* reader.read() rejects: catch enqueues the error event, then finally
ReadFail(error) ==
  /\ pc = "reading"
  /\ readPending
  /\ ~cancelled.is
  /\ out' = out \o <<Event("error", NoId, catchMessage(error))>>
                \o finallyEvents(textId)
  /\ closed' = TRUE
  /\ locked' = FALSE
  /\ readPending' = FALSE
  /\ how' = "fail"
  /\ failure' = error
  /\ pc' = "done"
  /\ UNCHANGED <<inputVars, sent, thrown, thrownMessage, cancelled,
                 readerCancelled, nextId, messageId, textId, pos, buffer, isDone,
                 calls>>
  /\ UNCHANGED <<toolVars, pageVars>>

Next ==
  \/ POSTRejects
  \/ POSTFetch
  \/ POSTThrows
  \/ POSTStreams
  \/ \E k \in 1..(Len(text) - pos) : ReadChunk(k)
  \/ ReadEnd
  \/ \E e \in ReadFailures : ReadFail(e)

Spec == Init /\ [][Next]_vars

\* ------------------------------------------------- consumer cancellation
\* cancel(reason) without the call of reader.cancel
cancel_withoutReaderCancel ==
  /\ pc = "reading"
  /\ readPending
  /\ ~cancelled.is
  /\ cancelled' = [is |-> TRUE, out |-> out, pos |-> pos]
  /\ UNCHANGED <<inputVars, sent, thrown, thrownMessage, readerCancelled, pc,
                 nextId, messageId, textId, out, closed, locked, pos, buffer,
                 isDone, readPending, calls, how, failure>>
  /\ UNCHANGED <<toolVars, pageVars>>

\* cancel(reason): the consumer cancels the output stream while start()
\* awaits a read; the output stream is closed and reader.cancel(reason) is
\* called
cancel ==
  /\ pc = "reading"
  /\ readPending
  /\ ~cancelled.is
  /\ cancelled' = [is |-> TRUE, out |-> out, pos |-> pos]
  /\ readerCancelled' = TRUE
  /\ UNCHANGED <<inputVars, sent, thrown, thrownMessage, pc, nextId, messageId,
                 textId, out, closed, locked, pos, buffer, isDone, readPending,
                 calls, how, failure>>
  /\ UNCHANGED <<toolVars, pageVars>>

\* the read pending at reader.cancel resolves with done: the loop is left and
\* the carry-over buffer is processed; controller.enqueue throws on the
\* closed output stream, in processLine, in catch and at the first statement
\* of finally, so close() and releaseLock() are not reached
ReadCancelled ==
  /\ pc = "reading"
  /\ readPending
  /\ cancelled.is
  /\ LET r == afterLoop(buffer, isDone, textId)
     IN /\ calls' = calls \o r.calls
        /\ isDone' = IF r.emit = <<>> THEN r.isDone ELSE isDone
  /\ readPending' = FALSE
  /\ how' = "cancel"
  /\ pc' = "done"
  /\ UNCHANGED <<inputVars, sent, thrown, thrownMessage, cancelled,
                 readerCancelled, nextId, messageId, textId, out, closed, locked,
                 pos, buffer, failure>>
  /\ UNCHANGED <<toolVars, pageVars>>

ShortTexts == {Join(fs, b) : fs \in FragSeqs(MaxFrags - 1), b \in BOOLEAN}

InitCancel ==
  /\ RouteStart
  /\ \/ RouteInputs({PlainBody}, StreamResponses(ShortTexts))
     \/ RouteInputs({NoMessagesBody}, {Response(200, TRUE, <<>>, <<>>)})
  /\ ToolIdle
  /\ PageIdle

NextCancel ==
  \/ Next
  \/ cancel
  \/ ReadCancelled

SpecCancel == InitCancel /\ [][NextCancel]_vars

\* ---------------------------------------- POST over every request body
\* a streamed response, a failed response with a text, failed responses
\* without one
RequestResponses ==
  {Response(200, TRUE, <<>>, Join(<<FragDone>>, FALSE)),
   Response(404, TRUE, <<"model 'qwen3:8b' not found">>, <<>>),
   Response(500, TRUE, <<>>, <<>>)}
    \cup BodilessResponses

InitRequest ==
  /\ RouteStart
  /\ RouteInputs(Bodies, RequestResponses)
  /\ ToolIdle
  /\ PageIdle

SpecRequest == InitRequest /\ [][Next]_vars

\* ------------------------------------------------- the tool-enabled route
\* number of tool calls the model may request in one step
MaxCalls == 2

StepLimit == 5

\* stepCountIs(n): the stop condition that holds of n finished steps
stepCountIs(n, steps) == steps = n

\* a stop condition one step too late
stopWhen_oneMore(steps) == stepCountIs(StepLimit + 1, steps)

\* stopWhen: stepCountIs(5)
stopWhen(steps) == stepCountIs(StepLimit, steps)

\* ------------------------------------------------------ the weather tool
\* entries of searchStrategies; duplicates are removed, so a location yields
\* one to four searches
MaxStrategies == 4

\* how one geocoding search ends: results, an empty result list, a response
\* that is not ok, a rejected fetch
GeocodeOutcomes == {"results", "empty", "notOk", "rejects"}

\* how the forecast request ends: data, a response that is not ok, a
\* rejected fetch
ForecastOutcomes == {"ok", "notOk", "rejects"}

RECURSIVE OutcomeSeqs(_)
OutcomeSeqs(n) ==
  IF n = 0 THEN {<<>>}
  ELSE {Append(s, o) : s \in OutcomeSeqs(n - 1), o \in GeocodeOutcomes}

\* the outcomes of the searches of the unique strategies of a location
StrategyOutcomes == UNION {OutcomeSeqs(n) : n \in 1..MaxStrategies}

NoData == "null"
GeocodeData == "geocodeData"

\* the loop over the strategies from strategy i on: what it returns and the
\* strategies it searched
RECURSIVE searchFrom(_, _)
searchFrom(outcomes, i) ==
  IF i > Len(outcomes) THEN [data |-> NoData, searched |-> <<>>]
  ELSE IF outcomes[i] = "results" THEN [data |-> GeocodeData, searched |-> <<i>>]
  ELSE LET later == searchFrom(outcomes, i + 1)
       IN [data |-> later.data, searched |-> <<i>> \o later.searched]

\* the loop returning null at the first search that fails
RECURSIVE searchFrom_stopsAtFailure(_, _)
searchFrom_stopsAtFailure(outcomes, i) ==
  IF i > Len(outcomes) THEN [data |-> NoData, searched |-> <<>>]
  ELSE IF outcomes[i] = "results" THEN [data |-> GeocodeData, searched |-> <<i>>]
  ELSE IF outcomes[i] \in {"notOk", "rejects"}
       THEN [data |-> NoData, searched |-> <<i>>]
  ELSE LET later == searchFrom_stopsAtFailure(outcomes, i + 1)
       IN [data |-> later.data, searched |-> <<i>> \o later.searched]

findLocationWithFallbacks_stopsAtFailure(outcomes) ==
  searchFrom_stopsAtFailure(outcomes, 1)

\* findLocationWithFallbacks: the data of the first search with results; a
\* search that fails in any way is passed over
findLocationWithFallbacks(outcomes) == searchFrom(outcomes, 1)

\* a call of execute that returns a value; raised tells a rejected promise
Returned(error, message) == [raised |-> FALSE, error |-> error, message |-> message]

\* weatherTool.execute: the whole body is in a try whose catch returns
execute(outcomes, forecast) ==
  IF findLocationWithFallbacks(outcomes).data = NoData
  THEN Returned(TRUE, "Location not found")
  ELSE IF forecast = "ok" THEN Returned(FALSE, "")
  ELSE IF forecast = "notOk"
       THEN Returned(TRUE, "Failed to fetch weather data: Weather API failed")
  ELSE Returned(TRUE, "Failed to fetch weather data: fetch failed")

\* the lookup gave no weather data (ghost of the tool part)
NoWeatherData(outcomes, forecast) ==
  ~((\E j \in DOMAIN outcomes : outcomes[j] = "results") /\ forecast = "ok")

\* a tool part of the assistant message
ToolPart(state, error, message, errText, failed) ==
  [state |-> state, error |-> error, message |-> message,
   errorText |-> errText, failed |-> failed]

\* the part of a tool call whose input is complete and whose execution is
\* under way
PendingPart == ToolPart("input-available", FALSE, "", "", FALSE)

\* the part once execute has settled: a returned value is the part's output,
\* a rejection is its errorText
settledPart(result, failed) ==
  IF result.raised
  THEN ToolPart("output-error", FALSE, "", result.message, failed)
  ELSE ToolPart("output-available", result.error, result.message, "", failed)

TEvent(type, step) == [type |-> type, step |-> step]

InitTools ==
  /\ ToolIdle
  /\ PageIdle
  /\ RouteStart
  /\ RouteInputs({PlainBody}, {Response(200, TRUE, <<>>, <<>>)})

\* POST: streamText starts the turn and its first generation step
ToolPOST ==
  /\ tPhase = "idle"
  /\ tPhase' = "model"
  /\ tDispatched' = 1
  /\ tOut' = <<TEvent("start", 0), TEvent("start-step", 1)>>
  /\ UNCHANGED <<tSteps, tCalls>>
  /\ UNCHANGED <<routeVars, pageVars, weatherVars>>

\* onStepFinish: logs only
onStepFinish(step) == TRUE

\* the step under way ends: it is recorded, onStepFinish runs, and the turn
\* goes on with another generation step when the step called tools and the
\* stop condition does not hold of the steps so far
stepEnd(events, calledTools) ==
  /\ onStepFinish(tSteps + 1)
  /\ tSteps' = tSteps + 1
  /\ tCalls' = <<>>
  /\ IF calledTools /\ ~stopWhen(tSteps + 1)
     THEN /\ tPhase' = "model"
          /\ tDispatched' = tDispatched + 1
          /\ tOut' = events \o <<TEvent("finish-step", tSteps + 1),
                                 TEvent("start-step", tDispatched + 1)>>
     ELSE /\ tPhase' = "finished"
          /\ tOut' = events \o <<TEvent("finish-step", tSteps + 1),
                                 TEvent("finish", 0)>>
          /\ UNCHANGED tDispatched

\* the model ends its generation of the step with text and n tool calls
ModelAnswers(n) ==
  /\ tPhase = "model"
  /\ n \in 0..MaxCalls
  /\ LET events == tOut \o <<TEvent("text", tDispatched)>>
                        \o [i \in 1..n |-> TEvent("tool-input-available", tDispatched)]
     IN IF n = 0
        THEN stepEnd(events, FALSE)
        ELSE /\ tPhase' = "tools"
             /\ tCalls' = [i \in 1..n |-> PendingPart]
             /\ tOut' = events
             /\ UNCHANGED <<tSteps, tDispatched>>
  /\ UNCHANGED <<routeVars, pageVars, weatherVars>>

\* the execution of tool call i of the step ends
ToolReturns(i, outcomes, forecast) ==
  /\ tPhase = "tools"
  /\ i \in DOMAIN tCalls
  /\ tCalls[i] = PendingPart
  /\ tCalls' = [tCalls EXCEPT ![i] = settledPart(execute(outcomes, forecast),
                                                  NoWeatherData(outcomes, forecast))]
  /\ UNCHANGED <<tPhase, tSteps, tDispatched, tOut>>
  /\ UNCHANGED <<routeVars, pageVars, weatherVars>>

\* every tool call of the step has ended
StepFinishes ==
  /\ tPhase = "tools"
  /\ \A i \in DOMAIN tCalls : tCalls[i] # PendingPart
  /\ stepEnd(tOut, TRUE)
  /\ UNCHANGED <<routeVars, pageVars, weatherVars>>

\* the model call of the step fails
ModelFails ==
  /\ tPhase = "model"
  /\ tPhase' = "failed"
  /\ tOut' = Append(tOut, TEvent("error", tDispatched))
  /\ UNCHANGED <<tSteps, tDispatched, tCalls>>
  /\ UNCHANGED <<routeVars, pageVars, weatherVars>>

NextTools ==
  \/ ToolPOST
  \/ \E n \in 0..MaxCalls : ModelAnswers(n)
  \/ \E i \in 1..MaxCalls, os \in StrategyOutcomes, f \in ForecastOutcomes :
        ToolReturns(i, os, f)
  \/ StepFinishes
  \/ ModelFails

SpecTools == InitTools /\ [][NextTools]_vars

\* ------------------------------------------------ a call of the weather tool
InitWeather ==
  /\ RouteStart
  /\ RouteInputs({PlainBody}, {Response(200, TRUE, <<>>, <<>>)})
  /\ PageIdle
  /\ StreamTextIdle
  /\ WeatherIdle
  /\ wOutcomes \in StrategyOutcomes
  /\ wForecast \in ForecastOutcomes

\* execute({ location }) is called and settles
callExecute ==
  /\ wPhase = "idle"
  /\ wPhase' = "returned"
  /\ wSearched' = findLocationWithFallbacks(wOutcomes).searched
  /\ wResult' = execute(wOutcomes, wForecast)
  /\ UNCHANGED <<wOutcomes, wForecast>>
  /\ UNCHANGED <<tPhase, tSteps, tDispatched, tCalls, tOut>>
  /\ UNCHANGED <<routeVars, pageVars>>

NextWeather == callExecute

SpecWeather == InitWeather /\ [][NextWeather]_vars

\* ----------------------------------------------------------- the chat page
\* number of calls of sendMessage
MaxSends == 2

\* what the textarea can hold: nothing, whitespace, a text
Inputs == {<<>>, <<SP>>, <<"h">>}

\* the chat page with the route idle
RouteIdle ==
  /\ RouteStart
  /\ RouteInputs({PlainBody}, {Response(200, TRUE, <<>>, <<>>)})
  /\ ToolIdle

InitPage == RouteIdle /\ PageIdle

\* disabled of PromptInputSubmit: !input && !status
submitDisabled(inp, st) == inp = <<>> /\ st = ""

\* onChange of the textarea
setInput(v) ==
  /\ v \in Inputs
  /\ v # input
  /\ input' = v
  /\ UNCHANGED <<thinkMode, chatStatus, sends, parts, finished, rendered>>
  /\ UNCHANGED <<routeVars, toolVars, convVars>>

\* onClick of the think mode toggle
setThinkMode ==
  /\ thinkMode' = ~thinkMode
  /\ UNCHANGED <<input, chatStatus, sends, parts, finished, rendered>>
  /\ UNCHANGED <<routeVars, toolVars, convVars>>

\* handleSubmit with the text of the textarea: nothing for a blank text,
\* else sendMessage with the model and the think mode, and the textarea is
\* cleared; useChat goes to submitted
handleSubmit ==
  /\ ~submitDisabled(input, chatStatus)
  /\ Len(sends) < MaxSends
  /\ LET txt == trim(input)
     IN /\ txt # <<>>
        /\ sends' = Append(sends, [text |-> txt,
                                    body |-> [model |-> DEFAULT_MODEL,
                                              think |-> thinkMode],
                                    during |-> chatStatus])
  /\ input' = <<>>
  /\ chatStatus' = "submitted"
  /\ UNCHANGED <<thinkMode, parts, finished, rendered>>
  /\ UNCHANGED <<routeVars, toolVars, convVars>>

\* useChat: the response of the request begins
responseBegins ==
  /\ chatStatus = "submitted"
  /\ chatStatus' = "streaming"
  /\ UNCHANGED <<input, thinkMode, sends, parts, finished, rendered>>
  /\ UNCHANGED <<routeVars, toolVars, convVars>>

\* useChat: the response of the request ends, well or with an error
responseEnds(st) ==
  /\ chatStatus \in {"submitted", "streaming"}
  /\ st \in {"ready", "error"}
  /\ chatStatus = "submitted" => st = "error"
  /\ chatStatus' = st
  /\ UNCHANGED <<input, thinkMode, sends, parts, finished, rendered>>
  /\ UNCHANGED <<routeVars, toolVars, convVars>>

NextPage ==
  \/ \E v \in Inputs : setInput(v)
  \/ setThinkMode
  \/ handleSubmit
  \/ responseBegins
  \/ \E st \in {"ready", "error"} : responseEnds(st)

SpecPage == InitPage /\ [][NextPage]_vars

\* ------------------------------------------- the rendering of a message
\* number of parts of a message
MaxParts == 3

PartTypes == {"reasoning", "text", "tool-weather"}

\* a part of a message; arrival is its place in the order of arrival
Part(type, arrival, state) == [type |-> type, arrival |-> arrival, state |-> state]

\* the comparator putting reasoning parts last
compareParts_reasoningLast(a, b) ==
  IF a.type = "reasoning" /\ b.type # "reasoning" THEN 1
  ELSE IF a.type # "reasoning" /\ b.type = "reasoning" THEN 0 - 1
  ELSE 0

\* the comparator of message.parts.sort
compareParts(a, b) ==
  IF a.type = "reasoning" /\ b.type # "reasoning" THEN 0 - 1
  ELSE IF a.type # "reasoning" /\ b.type = "reasoning" THEN 1
  ELSE 0

\* Array.prototype.sort is stable: an element goes before the first element
\* it compares less than
RECURSIVE insertPart(_, _)
insertPart(x, s) ==
  IF s = <<>> THEN <<x>>
  ELSE IF compareParts(x, Head(s)) < 0 THEN <<x>> \o s
  ELSE <<Head(s)>> \o insertPart(x, Tail(s))

RECURSIVE sortParts(_)
sortParts(s) ==
  IF s = <<>> THEN <<>> ELSE insertPart(Last(s), sortParts(Front(s)))

\* defaultOpen of a tool card, for the terminal state output-available only
toolDefaultOpen_availableOnly(state) == {state = "output-available"}

\* defaultOpen the page passes to Tool
toolDefaultOpen(state) ==
  {state = "output-available" \/ state = "output-error"}

\* Tool: defaultOpen ?? false; the prop is {} when it is not passed
Tool(defaultOpen) ==
  IF defaultOpen = {} THEN FALSE ELSE CHOOSE b \in defaultOpen : TRUE

\* what the page renders for a part
renderPart(part) ==
  [type |-> part.type, arrival |-> part.arrival, state |-> part.state,
   open |-> IF part.type = "tool-weather"
            THEN Tool(toolDefaultOpen(part.state))
            ELSE Tool({})]

InitParts == RouteIdle /\ PageIdle

\* useChat: a part of the assistant message arrives
partArrives(type) ==
  /\ ~finished
  /\ Len(parts) < MaxParts
  /\ type \in PartTypes
  /\ parts' = Append(parts, Part(type, Len(parts) + 1,
                                  IF type = "tool-weather" THEN "input-streaming"
                                  ELSE "none"))
  /\ UNCHANGED <<input, thinkMode, chatStatus, sends, finished, rendered>>
  /\ UNCHANGED <<routeVars, toolVars, convVars>>

\* useChat: the tool part i goes to its next state
toolPartAdvances(i, state) ==
  /\ ~finished
  /\ i \in DOMAIN parts
  /\ parts[i].type = "tool-weather"
  /\ \/ parts[i].state = "input-streaming" /\ state = "input-available"
     \/ parts[i].state = "input-available"
          /\ state \in {"output-available", "output-error"}
  /\ parts' = [parts EXCEPT ![i].state = state]
  /\ UNCHANGED <<input, thinkMode, chatStatus, sends, finished, rendered>>
  /\ UNCHANGED <<routeVars, toolVars, convVars>>

\* useChat: the stream of the message finishes
streamFinishes ==
  /\ ~finished
  /\ finished' = TRUE
  /\ UNCHANGED <<input, thinkMode, chatStatus, sends, parts, rendered>>
  /\ UNCHANGED <<routeVars, toolVars, convVars>>

\* the page renders the message: message.parts is sorted in place and
\* every part is mapped to its element
render ==
  /\ parts' = sortParts(parts)
  /\ rendered' = [i \in DOMAIN parts |-> renderPart(sortParts(parts)[i])]
  /\ UNCHANGED <<input, thinkMode, chatStatus, sends, finished>>
  /\ UNCHANGED <<routeVars, toolVars, convVars>>

NextParts ==
  \/ \E t \in PartTypes : partArrives(t)
  \/ \E i \in 1..MaxParts,
        s \in {"input-available", "output-available", "output-error"} :
        toolPartAdvances(i, s)
  \/ streamFinishes
  \/ render

SpecParts == InitParts /\ [][NextParts]_vars

\* ------------------------------------------ the rendering of a conversation
\* number of messages of a conversation
MaxConversation == 4

RECURSIVE PartTypeSeqs(_)
PartTypeSeqs(n) ==
  IF n = 0 THEN {<<>>}
  ELSE {Append(s, t) : s \in PartTypeSeqs(n - 1), t \in PartTypes}

\* the parts an assistant message can have, in their order of arrival
AssistantParts ==
  {[i \in DOMAIN ts |-> Part(ts[i], i,
                              IF ts[i] = "tool-weather" THEN "output-available"
                              ELSE "none")] :
     ts \in UNION {PartTypeSeqs(n) : n \in 1..MaxParts}}

InitConversation == RouteIdle /\ PageIdle

\* useChat: the message of the user is appended
userMessage ==
  /\ Len(conversation) < MaxConversation
  /\ IF conversation = <<>> THEN TRUE ELSE Last(conversation).role = "assistant"
  /\ conversation' = Append(conversation,
                             [role |-> "user", parts |-> <<Part("text", 1, "none")>>])
  /\ UNCHANGED <<input, thinkMode, chatStatus, sends, parts, finished, rendered,
                 shown>>
  /\ UNCHANGED <<routeVars, toolVars>>

\* useChat: the answer of the assistant is appended
assistantMessage(ps) ==
  /\ Len(conversation) < MaxConversation
  /\ IF conversation = <<>> THEN FALSE ELSE Last(conversation).role = "user"
  /\ ps \in AssistantParts
  /\ conversation' = Append(conversation, [role |-> "assistant", parts |-> ps])
  /\ UNCHANGED <<input, thinkMode, chatStatus, sends, parts, finished, rendered,
                 shown>>
  /\ UNCHANGED <<routeVars, toolVars>>

\* the condition of the Actions under the text part at index i (from 0) of
\* a message: message.role === 'assistant' && i === messages.length - 1
actionsShown(message, i, messages) ==
  message.role = "assistant" /\ i = Len(messages) - 1

\* the page renders the conversation: the parts of every message are sorted
\* in place, and the Actions are rendered under the text parts the condition
\* holds of
renderConversation ==
  /\ conversation' = [m \in DOMAIN conversation |->
                        [conversation[m] EXCEPT !.parts = sortParts(@)]]
  /\ shown' = [count |-> Len(conversation),
                actions |-> {<<m, i>> \in (DOMAIN conversation) \X (1..MaxParts) :
                               /\ i \in DOMAIN conversation[m].parts
                               /\ sortParts(conversation[m].parts)[i].type = "text"
                               /\ actionsShown(conversation[m], i - 1, conversation)}]
  /\ UNCHANGED <<input, thinkMode, chatStatus, sends, parts, finished, rendered>>
  /\ UNCHANGED <<routeVars, toolVars>>

NextConversation ==
  \/ userMessage
  \/ \E ps \in AssistantParts : assistantMessage(ps)
  \/ renderConversation

SpecConversation == InitConversation /\ [][NextConversation]_vars

\* ------------------------------------------------ vocabulary of the claims
OfType(s, t) == SelectSeq(s, LAMBDA e : e.type = t)
DeltasAndErrors(s) == SelectSeq(s, LAMBDA e : e.type \in {"text-delta", "error"})

TextLines == split(text)

\* the events every stream opens and closes with
Opening == <<Event("start", messageId, ""), Event("text-start", textId, "")>>
Closing == <<Event("text-end", textId, ""), Event("finish", NoId, "")>>

\* the backend answered with a non-success status or without a body
FetchFailed == ~respOk \/ ~hasBody

\* a record that carries content and ends nothing
IsContentLine(l) ==
  LET p == JSONparse(l)
  IN p.kind = "object" /\ Truthy(p.content) /\ ~Truthy(p.done) /\ ~Truthy(p.error)

\* a record that only says done: true
IsDoneLine(l) ==
  LET p == JSONparse(l)
  IN p.kind = "object" /\ p.done = "true" /\ ~Truthy(p.content) /\ ~Truthy(p.error)

\* a record with a non-empty error
IsErrorLine(l) ==
  LET p == JSONparse(l) IN p.kind = "object" /\ Truthy(p.error)

\* a record the stream ends at
IsTerminating(l) ==
  LET p == JSONparse(l)
  IN p.kind = "object" /\ (Truthy(p.error) \/ Truthy(p.done))

\* a line JSON.parse rejects or parses to something that is no object
IsBadLine(l) ==
  trim(l) # <<>> /\ JSONparse(l).kind # "object"

\* the text-delta events of lines, every one taken as a plain content record
DeltaEvents(lines) ==
  [j \in DOMAIN lines |-> Event("text-delta", textId, JSONparse(lines[j]).content)]

\* the stream was read to its end or to a terminating record
Delivered == pc = "done" /\ how # "fail"

\* the text is N content lines, then a done line at n, then anything
DoneShapeAt(n) ==
  /\ n \in DOMAIN TextLines
  /\ IsDoneLine(TextLines[n])
  /\ \A j \in 1..(n - 1) : IsContentLine(TextLines[j])

\* C1: when the upstream text is N content lines followed by a done line
\* (and then anything), however the text is cut into reads, the events are
\* start, text-start, the N text-delta events of the N lines in order,
\* text-end, finish: nothing after the done line yields an event.
C1_DoneAfterNLines ==
  Delivered =>
    \A n \in DOMAIN TextLines :
      DoneShapeAt(n) =>
        out = Opening
                \o DeltaEvents(SubSeq(TextLines, 1, n - 1))
                \o Closing

\* C1 witness: one content line or more, the done line, a content line after
\* it, and the whole text was delivered before the stream ended
C1_Witness ==
  /\ Delivered
  /\ pos = Len(text)
  /\ \E n \in DOMAIN TextLines :
       /\ n >= 2
       /\ DoneShapeAt(n)
       /\ \E m \in (n + 1)..Len(TextLines) : IsContentLine(TextLines[m])
  /\ Len(OfType(out, "text-delta")) >= 1

\* the text-delta events of the records among lines that carry content
RECURSIVE ContentDeltas(_)
ContentDeltas(lines) ==
  IF lines = <<>> THEN <<>>
  ELSE LET p == JSONparse(Head(lines))
       IN (IF p.kind = "object" /\ Truthy(p.content)
           THEN <<Event("text-delta", textId, p.content)>>
           ELSE <<>>) \o ContentDeltas(Tail(lines))

ErrorAt(i) == i \in DOMAIN TextLines /\ IsErrorLine(TextLines[i])
FirstTerminating(i) == \A j \in 1..(i - 1) : ~IsTerminating(TextLines[j])

\* the events the claim C2 describes for the error line i
ErrorLineEvents(i) ==
  Opening
    \o ContentDeltas(SubSeq(TextLines, 1, i - 1))
    \o <<Event("error", NoId, JSONparse(TextLines[i]).error)>>
    \o Closing

\* C2 as stated: for every line with a non-empty error X of the upstream
\* text, the events are those of the lines before it, then one error event
\* carrying X, and no text-delta or error event after it.
C2_AnyErrorLine ==
  Delivered => \A i \in DOMAIN TextLines : ErrorAt(i) => out = ErrorLineEvents(i)

\* C2 amended: for a line with a non-empty error X that no line with done:
\* true or a non-empty error precedes, the events are those of the lines
\* before it, then exactly one error event carrying X, and no text-delta or
\* error event after it, whatever follows the line.
C2_FirstErrorLine ==
  Delivered =>
    \A i \in DOMAIN TextLines :
      ErrorAt(i) /\ FirstTerminating(i) => out = ErrorLineEvents(i)

\* C2 witness: content before the error line, and a content or error line
\* after it that was delivered too
C2_Witness ==
  /\ Delivered
  /\ pos = Len(text)
  /\ \E i \in DOMAIN TextLines :
       /\ ErrorAt(i)
       /\ FirstTerminating(i)
       /\ \E j \in 1..(i - 1) : IsContentLine(TextLines[j])
       /\ \E m \in (i + 1)..Len(TextLines) :
            IsContentLine(TextLines[m]) \/ IsErrorLine(TextLines[m])
  /\ Len(OfType(out, "error")) = 1

NoTerminator == \A i \in DOMAIN TextLines : ~IsTerminating(TextLines[i])

\* C3: when the upstream ends and its text holds no record with done: true
\* or a non-empty error, the end of the stream is taken at once and the
\* events end with text-end, finish; the controller is closed, no error
\* event was enqueued and POST threw nothing.
C3_EofEndsNormally ==
  /\ (pc = "reading" /\ pos = Len(text)) => ENABLED ReadEnd
  /\ (Delivered /\ NoTerminator) =>
       /\ how = "eof"
       /\ closed
       /\ ~readPending
       /\ ~thrown
       /\ OfType(out, "error") = <<>>
       /\ out = Opening
                  \o OfType(out, "text-delta")
                  \o Closing

\* C3 witness: the upstream ended after content, the last line without its
\* newline, and no terminating record anywhere
C3_Witness ==
  /\ pc = "done"
  /\ how = "eof"
  /\ NoTerminator
  /\ trim(buffer) # <<>>
  /\ Len(OfType(out, "text-delta")) >= 2

\* the events and the processLine calls of the text taken line by line
TextEvents == forLines(TextLines, textId)

\* C4: the text-delta and error events are those of the text taken line by
\* line, whatever the reads were, and processLine is called on the lines of
\* the text in order, each line at most once.
C4_PartitionIndependent ==
  /\ IsPrefix(calls, TextEvents.calls)
  /\ Delivered =>
       /\ DeltasAndErrors(out) = TextEvents.emit
       /\ calls = TextEvents.calls

\* C4 witness: a read ended inside a line after an earlier line was processed
C4_Witness ==
  /\ pc = "reading"
  /\ calls # <<>>
  /\ trim(buffer) # <<>>
  /\ pos < Len(text)
  /\ text[pos + 1] # NL

AllOfType(s, t) == \A i \in DOMAIN s : s[i].type = t

\* C5: after a successful fetch the events are start, text-start, text-delta
\* events, at most one error, text-end, finish; while the stream is open no
\* text-end or finish has been enqueued, and finish is the last event of a
\* closed stream.
C5_EventGrammar ==
  ~FetchFailed =>
    /\ pc = "init" => out = <<>>
    /\ pc = "reading" =>
         /\ SubSeq(out, 1, 2) = Opening
         /\ AllOfType(SubSeq(out, 3, Len(out)), "text-delta")
         /\ ~closed
    /\ pc = "done" =>
         LET mid == SubSeq(out, 3, Len(out) - 2)
         IN /\ Len(out) >= 4
            /\ SubSeq(out, 1, 2) = Opening
            /\ SubSeq(out, Len(out) - 1, Len(out)) = Closing
            /\ \/ AllOfType(mid, "text-delta")
               \/ /\ mid # <<>>
                  /\ AllOfType(Front(mid), "text-delta")
                  /\ Last(mid).type = "error"
            /\ \A t \in {"start", "text-start", "text-end", "finish"} :
                 Len(OfType(out, t)) = 1
            /\ closed

\* C5 witness: a finished stream with two text-delta events and an error
C5_Witness ==
  /\ pc = "done"
  /\ Len(OfType(out, "text-delta")) >= 2
  /\ Len(OfType(out, "error")) = 1

\* C6: when the backend response is not ok or has no body, POST throws and
\* does nothing else: no event is enqueued, no reader is taken and no read
\* is issued.
C6_FailedFetchThrowsFirst ==
  FetchFailed =>
    /\ out = <<>>
    /\ ~readPending
    /\ ~locked
    /\ pos = 0
    /\ pc \in {"init", "fetching", "thrown"}
    /\ pc = "fetching" => ENABLED POSTThrows /\ ~ENABLED POSTStreams
    /\ pc = "thrown" <=> thrown

\* C6 witness: POST threw on an ok response without a body
C6_Witness == pc = "thrown" /\ thrown /\ respOk /\ ~hasBody

\* C7: when a read rejects, POST does not throw; the events are start,
\* text-start, the text-delta events of the complete lines read before the
\* failure, one error event (carrying the message of the Error), text-end,
\* finish.
C7_ReadFailureIsAnEvent ==
  how = "fail" =>
    /\ ~thrown
    /\ pc = "done"
    /\ Len(out) >= 5
    /\ LET e == out[Len(out) - 2]
       IN /\ e.type = "error"
          /\ failure.isError => e.data = failure.message
    /\ OfType(out, "error") = <<out[Len(out) - 2]>>
    /\ SubSeq(out, 1, Len(out) - 3) =
         Opening
           \o ContentDeltas(Front(split(SubSeq(text, 1, pos))))
    /\ SubSeq(out, Len(out) - 1, Len(out)) = Closing

\* C7 witness: a read rejected with an Error after two text-delta events
C7_Witness ==
  /\ how = "fail"
  /\ failure.isError
  /\ Len(OfType(out, "text-delta")) >= 2

\* C8: the events are those of the text with the lines left out that
\* JSON.parse rejects or parses to something that is no object: such a line
\* yields no event and does not end the stream.
C8_BadLinesSkipped ==
  Delivered =>
    DeltasAndErrors(out) =
      forLines(SelectSeq(TextLines, LAMBDA l : ~IsBadLine(l)), textId).emit

\* C8 witness: a rejected line between two content lines, both delivered
C8_Witness ==
  /\ Delivered
  /\ Len(TextLines) >= 3
  /\ IsContentLine(TextLines[1])
  /\ IsBadLine(TextLines[2])
  /\ JSONparse(TextLines[2]).kind = "throws"
  /\ IsContentLine(TextLines[3])
  /\ Len(OfType(out, "text-delta")) = 2

\* every generation step started so far requested a tool call
EveryStepCalledTools ==
  \A k \in 1..tDispatched :
    \E i \in DOMAIN tOut :
      tOut[i].type = "tool-input-available" /\ tOut[i].step = k

\* the steps whose text is in the event stream, in order
StepsWithText ==
  LET texts == SelectSeq(tOut, LAMBDA e : e.type = "text")
  IN [i \in DOMAIN texts |-> texts[i].step]

\* C10: a turn of the tool-enabled route starts at most 5 generation steps;
\* when every step requests a tool call the turn ends after the 5th step
\* with the text of steps 1 to 5, with finish as its last event and without
\* an error event.
C10_StepBound ==
  /\ tDispatched <= 5
  /\ \A i \in DOMAIN tOut : tOut[i].step <= 5
  /\ (tPhase = "finished" /\ EveryStepCalledTools) =>
       /\ tSteps = 5
       /\ tDispatched = 5
       /\ StepsWithText = <<1, 2, 3, 4, 5>>
       /\ Last(tOut).type = "finish"
       /\ \A i \in DOMAIN tOut : tOut[i].type # "error"

\* C10 witness: a finished turn whose five steps all called tools
C10_Witness ==
  /\ tPhase = "finished"
  /\ EveryStepCalledTools
  /\ tSteps = 5
  /\ \E i \in DOMAIN tOut :
       tOut[i].type = "tool-input-available" /\ tOut[i].step = 5

\* C11: a tool invocation whose execution failed (the lookup gave no weather
\* data) is in state output-error and carries an error text.
C11_FailedToolIsOutputError ==
  \A i \in DOMAIN tCalls :
    tCalls[i].failed =>
      tCalls[i].state = "output-error" /\ tCalls[i].errorText # ""

\* a record with a non-empty error that also carries content or done: true
IsMixedErrorLine(l) ==
  LET p == JSONparse(l)
  IN p.kind = "object" /\ Truthy(p.error) /\ (Truthy(p.content) \/ Truthy(p.done))

\* C20: for a parsed line with a non-empty error that also carries content
\* or done: true, the only event of the line is the error event: the
\* text-delta events are those of the lines before it, and the error event
\* is followed by text-end and finish alone.
C20_ErrorTakesPrecedence ==
  Delivered =>
    \A i \in DOMAIN TextLines :
      (IsMixedErrorLine(TextLines[i]) /\ FirstTerminating(i)) =>
        /\ OfType(out, "text-delta") = ContentDeltas(SubSeq(TextLines, 1, i - 1))
        /\ OfType(out, "error")
             = <<Event("error", NoId, JSONparse(TextLines[i]).error)>>
        /\ SubSeq(out, Len(out) - 2, Len(out))
             = <<Event("error", NoId, JSONparse(TextLines[i]).error)>> \o Closing

\* C20 witness: a delivered text whose first terminating line has an error,
\* content and done: true, after a content line
C20_Witness ==
  /\ Delivered
  /\ \E i \in DOMAIN TextLines :
       /\ i >= 2
       /\ FirstTerminating(i)
       /\ IsContentLine(TextLines[1])
       /\ Truthy(JSONparse(TextLines[i]).error)
       /\ Truthy(JSONparse(TextLines[i]).content)
       /\ Truthy(JSONparse(TextLines[i]).done)
  /\ Len(OfType(out, "error")) = 1

\* C17: when the backend answered with a non-success status or without a
\* body, POST threw, and the message of the error is the response text when
\* that text is not empty and the generic message with the status code when
\* it is empty.
C17_ThrownMessageIsResponseText ==
  (FetchFailed /\ sent # <<>> /\ pc # "fetching") =>
    /\ thrown
    /\ errorText # <<>> => thrownMessage = errorText
    /\ errorText = <<>> =>
         thrownMessage = <<"Request to Ollama failed with status", status>>

\* C17 witness: POST threw on a 404 response whose text is not empty
C17_Witness ==
  /\ pc = "thrown"
  /\ sent # <<>>
  /\ status = 404
  /\ errorText # <<>>
  /\ thrownMessage = errorText

\* the texts of the text parts of a message, joined and trimmed
TextOf(msg) ==
  LET textParts == SelectSeq(msg.content, LAMBDA q : q.type = "text")
      RECURSIVE Concat(_)
      Concat(ps) == IF ps = <<>> THEN <<>> ELSE Head(ps).text \o Concat(Tail(ps))
  IN trim(Concat(textParts))

\* the messages of the POST body, none when the body has no messages
InputMessages == IF "messages" \in body.keys THEN body.messages ELSE <<>>

\* the input messages that have text, each as its role and text
KeptMessages ==
  LET kept == SelectSeq(InputMessages, LAMBDA msg : TextOf(msg) # <<>>)
  IN [i \in DOMAIN kept |-> [role |-> kept[i].role, content |-> TextOf(kept[i])]]

\* C18: every request sent to the backend has stream: true, the model of the
\* POST body or the default model when the body has none, and as messages
\* the system prompt followed by the input messages whose joined, trimmed
\* text is not empty, in their order, each as its role and that text.
C18_OutboundRequest ==
  \A i \in DOMAIN sent :
    /\ sent[i].body.stream = TRUE
    /\ sent[i].body.model
         = (IF "model" \in body.keys THEN body.model ELSE "llama3.2:latest")
    /\ sent[i].body.messages
         = <<[role |-> "system", content |-> SYSTEM_PROMPT]>> \o KeptMessages

\* C18 witness: a request for a body without a model and with three
\* messages of which the one in the middle has no text and the last has two
\* text parts
C18_Witness ==
  /\ Len(sent) = 1
  /\ "model" \notin body.keys
  /\ Len(InputMessages) = 3
  /\ TextOf(InputMessages[1]) # <<>>
  /\ TextOf(InputMessages[2]) = <<>>
  /\ InputMessages[3] = MsgTwoParts
  /\ Len(sent[1].body.messages) = 3

\* C19: the think flag of the POST body reaches the backend: a request sent
\* for a body with think = true carries think: true, and a request sent for
\* a body with think = false does not enable thinking.
C19_ThinkForwarded ==
  \A i \in DOMAIN sent :
    /\ ("think" \in body.keys /\ body.think) =>
         ("think" \in DOMAIN sent[i].body /\ sent[i].body.think = TRUE)
    /\ ("think" \in body.keys /\ ~body.think) =>
         ("think" \notin DOMAIN sent[i].body \/ sent[i].body.think = FALSE)

\* C13: every request to the backend carries the abort signal of the
\* request to POST; once the consumer has cancelled the output stream, the
\* upstream reader is cancelled, no further part of the upstream text is
\* read, no read is pending once start() has ended, and the consumer is
\* delivered no event beyond those it had at the cancellation.
C13_CancelStopsTheBridge ==
  /\ \A i \in DOMAIN sent : sent[i].signal = "request.signal"
  /\ cancelled.is =>
       /\ readerCancelled
       /\ pos = cancelled.pos
       /\ out = cancelled.out
       /\ pc = "done" => ~readPending

\* C13 witness: the consumer cancelled in the middle of the upstream text,
\* with a content record in the carry-over buffer, and start() has ended
C13_Witness ==
  /\ cancelled.is
  /\ pc = "done"
  /\ how = "cancel"
  /\ 0 < pos
  /\ pos < Len(text)
  /\ IsContentLine(trim(buffer))
  /\ Len(OfType(out, "text-delta")) >= 1

\* C14: the chat page issues no send while a turn is submitted or streaming.
C14_NoSendWhileBusy ==
  [][(chatStatus \in {"submitted", "streaming"}) => (sends' = sends)]_vars

\* the places in the rendering of the parts that are, or are not, reasoning
ReasoningPlaces == {i \in DOMAIN rendered : rendered[i].type = "reasoning"}
OtherPlaces == {i \in DOMAIN rendered : rendered[i].type # "reasoning"}

\* C15: in the rendering of a message every reasoning part comes before
\* every part that is not reasoning, and among the reasoning parts and among
\* the other parts the order is the order of arrival.
C15_ReasoningFirst ==
  /\ \A i \in ReasoningPlaces, j \in OtherPlaces : i < j
  /\ \A i, j \in ReasoningPlaces : i < j => rendered[i].arrival < rendered[j].arrival
  /\ \A i, j \in OtherPlaces : i < j => rendered[i].arrival < rendered[j].arrival

\* C15 witness: a rendering of three parts of which the reasoning part
\* arrived last and a tool part arrived before a text part
C15_Witness ==
  /\ Len(rendered) = 3
  /\ rendered[1].type = "reasoning"
  /\ rendered[1].arrival = 3
  /\ rendered[2].type = "tool-weather"
  /\ rendered[3].type = "text"

\* C16: a rendered tool card is open by default exactly when the state of
\* its part is output-available or output-error; for input-streaming and
\* input-available it is collapsed.
C16_OpenWhenTerminal ==
  \A i \in DOMAIN rendered :
    rendered[i].type = "tool-weather" =>
      (rendered[i].open <=> rendered[i].state \in {"output-available", "output-error"})

\* C16 witness: a rendering with a tool card in state output-error and one
\* in state input-available
C16_Witness ==
  \E i, j \in DOMAIN rendered :
    /\ rendered[i].type = "tool-weather"
    /\ rendered[i].state = "output-error"
    /\ rendered[i].open
    /\ rendered[j].type = "tool-weather"
    /\ rendered[j].state = "input-available"
    /\ ~rendered[j].open

\* the upstream text read so far, its lines that a newline ends, and the
\* text after its last newline
ReadSoFar == SubSeq(text, 1, pos)
EndedLines == Front(split(ReadSoFar))
PartialLine == Last(split(ReadSoFar))

\* lines trimmed, the blank ones left out
RECURSIVE TrimmedNonBlank(_)
TrimmedNonBlank(lines) ==
  IF lines = <<>> THEN <<>>
  ELSE (IF trim(Head(lines)) = <<>> THEN <<>> ELSE <<trim(Head(lines))>>)
         \o TrimmedNonBlank(Tail(lines))

\* lines up to and with the first terminating record among them
RECURSIVE ThroughTerminating(_)
ThroughTerminating(lines) ==
  IF lines = <<>> THEN <<>>
  ELSE IF IsTerminating(Head(lines)) THEN <<Head(lines)>>
  ELSE <<Head(lines)>> \o ThroughTerminating(Tail(lines))

\* C21: while the upstream is open only lines that a newline ends are
\* parsed, never the text after the last newline; that text is parsed once,
\* trimmed, when the upstream reports its end, and only when it is not blank
\* and no terminating record was seen before.
C21_PartialLineParsedAtEnd ==
  /\ (pc = "reading" \/ how = "fail") => calls = TrimmedNonBlank(EndedLines)
  /\ how = "record" =>
       /\ calls = ThroughTerminating(TrimmedNonBlank(EndedLines))
       /\ IsTerminating(Last(calls))
  /\ how = "eof" =>
       /\ \A i \in DOMAIN TrimmedNonBlank(EndedLines) :
            ~IsTerminating(TrimmedNonBlank(EndedLines)[i])
       /\ calls = TrimmedNonBlank(EndedLines)
                    \o (IF trim(PartialLine) = <<>> THEN <<>>
                        ELSE <<trim(PartialLine)>>)

\* C21 witness: the upstream ended after a text without a final newline
\* whose last line has whitespace before its record; that line was parsed
\* trimmed, after a line that a newline ended
C21_Witness ==
  /\ how = "eof"
  /\ trim(PartialLine) # <<>>
  /\ trim(PartialLine) # PartialLine
  /\ Len(calls) >= 2
  /\ Last(calls) = trim(PartialLine)

\* the events of the text segment
TextStarts == OfType(out, "text-start")
SegmentEvents == SelectSeq(out, LAMBDA e : e.type \in {"text-delta", "text-end"})

\* C22: the events of a POST call hold at most one text-start event; every
\* text-delta event and the text-end event carry the id of that text-start
\* event, and the segment id of the call is that id from the first event to
\* the last.
C22_OneSegmentId ==
  /\ Len(TextStarts) <= 1
  /\ SegmentEvents # <<>> => Len(TextStarts) = 1
  /\ \A i \in DOMAIN SegmentEvents : SegmentEvents[i].id = TextStarts[1].id
  /\ TextStarts # <<>> => (textId = TextStarts[1].id /\ textId # NoId)

\* C22 witness: a finished stream with two text-delta events and text-end
C22_Witness ==
  /\ pc = "done"
  /\ Len(OfType(out, "text-delta")) >= 2
  /\ Len(OfType(out, "text-end")) = 1
  /\ Len(TextStarts) = 1

\* a record with content and done: true and without an error
IsContentDoneLine(l) ==
  LET p == JSONparse(l)
  IN p.kind = "object" /\ Truthy(p.content) /\ Truthy(p.done) /\ ~Truthy(p.error)

\* C25: when the first terminating record of the upstream text carries
\* content and done: true, its content is the last text-delta event of the
\* stream: the events are those of the lines up to and with that record,
\* then text-end and finish.
C25_ContentOfDoneRecordKept ==
  Delivered =>
    \A i \in DOMAIN TextLines :
      (IsContentDoneLine(TextLines[i]) /\ FirstTerminating(i)) =>
        /\ out = Opening \o ContentDeltas(SubSeq(TextLines, 1, i)) \o Closing
        /\ out[Len(out) - 2]
             = Event("text-delta", textId, JSONparse(TextLines[i]).content)

\* C25 witness: a delivered text whose second line or a later one is the
\* first terminating record and carries content and done: true
C25_Witness ==
  /\ Delivered
  /\ \E i \in DOMAIN TextLines :
       /\ i >= 2
       /\ IsContentDoneLine(TextLines[i])
       /\ FirstTerminating(i)
       /\ IsContentLine(TextLines[1])
  /\ Len(OfType(out, "text-delta")) >= 2

\* C26: a terminating record is the last line processed: once one has been
\* processed start() has ended, no read is pending or issued again, and
\* neither a later line of that read nor the carry-over buffer is processed.
C26_NothingAfterTerminating ==
  \A j \in DOMAIN calls :
    IsTerminating(calls[j]) =>
      /\ j = Len(calls)
      /\ pc = "done"
      /\ ~readPending
      /\ ~ENABLED (\E k \in 1..Len(text) : ReadChunk(k))

\* C26 witness: a terminating record was processed in a read that held a
\* later complete line and left a carry-over buffer that is not blank
C26_Witness ==
  /\ how = "record"
  /\ IsTerminating(Last(calls))
  /\ trim(buffer) # <<>>
  /\ Len(TrimmedNonBlank(EndedLines)) > Len(calls)

\* C27: the events of a POST call hold at most one error event, and no
\* text-delta event comes after an error event.
C27_OneErrorNoDeltaAfter ==
  /\ Len(OfType(out, "error")) <= 1
  /\ \A i, j \in DOMAIN out :
       (i < j /\ out[i].type = "error") => out[j].type # "text-delta"

\* C27 witness: a stream that ended at a read failure after text-delta
\* events, and whose upstream text holds an error record that was not read
C27_Witness ==
  /\ how = "fail"
  /\ Len(OfType(out, "error")) = 1
  /\ Len(OfType(out, "text-delta")) >= 1
  /\ \E i \in DOMAIN TextLines : IsErrorLine(TextLines[i])

\* C28: on every path on which the output stream ends (a done record, an
\* error record, the end of the upstream, a read failure, a cancellation by
\* the consumer) the controller is closed and the lock of the upstream
\* reader is released.
C28_CleanupCompletes ==
  pc = "done" => (closed /\ ~locked)

\* C29: when no message of the POST body has text after trimming, and when
\* the body has no messages, POST throws with the message that there are no
\* text messages; no request is sent to the backend and no event is
\* enqueued.
C29_NoTextThrowsBeforeFetch ==
  KeptMessages = <<>> =>
    /\ sent = <<>>
    /\ out = <<>>
    /\ pc \in {"init", "thrown"}
    /\ pc = "init" => (ENABLED POSTRejects /\ ~ENABLED POSTFetch)
    /\ pc = "thrown" =>
         thrownMessage = <<"No text messages available for Ollama request.">>

\* C29 witness: POST threw for a body whose two messages are a message of
\* whitespace and a message without a text part
C29_Witness ==
  /\ pc = "thrown"
  /\ sent = <<>>
  /\ Len(InputMessages) = 2
  /\ InputMessages[1] = MsgBlank
  /\ InputMessages[2] = MsgNoText

\* a search of the lookup had results, and the first that had
SomeResults == \E j \in DOMAIN wOutcomes : wOutcomes[j] = "results"
FirstResults ==
  CHOOSE j \in DOMAIN wOutcomes :
    wOutcomes[j] = "results" /\ \A h \in 1..(j - 1) : wOutcomes[h] # "results"

\* C30: execute never raises. When no search has results, or the forecast
\* request fails, it returns a value with error: true and a message, else a
\* value without error; the strategies are searched in order up to the
\* first with results, whatever way the earlier ones failed.
C30_ExecuteNeverRaises ==
  wPhase = "returned" =>
    /\ ~wResult.raised
    /\ (~SomeResults \/ wForecast # "ok") =>
         (wResult.error /\ wResult.message # "")
    /\ (SomeResults /\ wForecast = "ok") => ~wResult.error
    /\ wSearched = [i \in 1..(IF SomeResults THEN FirstResults
                                ELSE Len(wOutcomes)) |-> i]

\* C30 witness: a rejected search and a search that is not ok, then a
\* search with results; the forecast request is not ok and execute returned
\* a value with error: true
C30_Witness ==
  /\ wPhase = "returned"
  /\ Len(wOutcomes) >= 3
  /\ wOutcomes[1] = "rejects"
  /\ wOutcomes[2] = "notOk"
  /\ wOutcomes[3] = "results"
  /\ wForecast = "notOk"
  /\ wSearched = <<1, 2, 3>>
  /\ wResult.error
  /\ ~wResult.raised

\* C23: once the stream of a message has finished, message.parts keeps the
\* order of its elements: a rendering of the page does not change it.
C23_RenderKeepsParts ==
  [][finished => (parts' = parts)]_vars

\* the text parts of the last message of the rendered conversation, when it
\* is a message of the assistant
LastAssistantTexts ==
  IF shown.count > 0 /\ conversation[shown.count].role = "assistant"
  THEN {<<shown.count, i>> : i \in {h \in DOMAIN conversation[shown.count].parts :
                                      conversation[shown.count].parts[h].type = "text"}}
  ELSE {}

\* C24: in a rendering of the conversation the Retry and Copy actions are
\* under exactly the text parts of the last message when that message is of
\* the assistant, and under no part of an earlier message.
C24_ActionsOnLastAssistant ==
  shown.actions = LastAssistantTexts

====
